---- MODULE Spec2Model ----
(***************************************************************************)
(* State-machine model of the Playwright MCP server                        *)
(* (src/src/playwright_mcp_server/server.py, tools.py).                    *)
(*                                                                         *)
(* The session object PlaywrightMCPServer holds five fields: playwright,   *)
(* browser, context, pages and current_page.  Every handler is one atomic  *)
(* action (the transport delivers one call at a time).  The browser engine *)
(* is the environment: every engine call may succeed or raise, chosen by   *)
(* the fault set F an action draws; calls records the engine calls the     *)
(* last operation issued, in order.  main is the position of async_main    *)
(* (main.py); tasks holds two handle_call_tool invocations that run        *)
(* await by await in the specification of overlapping dispatches.          *)
(*                                                                         *)
(* Strings are sequences of tokens; the token " " is whitespace.           *)
(***************************************************************************)
EXTENDS Integers, Sequences, FiniteSets, TLC

VARIABLES playwright, browser, context, pages, current_page,
          engine, calls, last, cleanups, script, main, tasks

vars == <<playwright, browser, context, pages, current_page,
          engine, calls, last, cleanups, script, main, tasks>>

(* ---------------- bounds ---------------- *)

\* most pages the engine will create in one run
MaxPages == 3

\* most cleanup() calls in one run
MaxCleanups == 2

(* ---------------- handles ---------------- *)

\* Python None for an Optional handle
NULL == 0

\* the session fields as one record (self)
Self ==
  [playwright |-> playwright, browser |-> browser, context |-> context,
   pages |-> pages, current_page |-> current_page]

\* the session right after __init__
FreshSelf ==
  [playwright |-> NULL, browser |-> NULL, context |-> NULL,
   pages |-> << >>, current_page |-> NULL]

\* what the engine has handed out so far: successful start / launch /
\* new_context / new_page calls
FreshEngine == [started |-> 0, launched |-> 0, contexts |-> 0, created |-> 0]

(* ---------------- engine calls ---------------- *)

\* one engine call: its kind, the handle it was made on, its string
\* argument (<< >> when it has none) and how it ended: "ok", "raised", or
\* for page.goto one of NavOutcomes
Call(kind, on, arg, out) == [kind |-> kind, on |-> on, arg |-> arg, out |-> out]

\* every call of a log returned what was asked for
AllOk(log) == \A i \in 1..Len(log) : log[i].out = "ok"

\* a frame threads the call log, the session, the engine and the pending
\* exception through the statements of one handler.  Here and below a
\* record is written with its fields in the order TLC keeps them, so that
\* workers sharing a value never reorder it
Frame(s, e) == [calls |-> << >>, s |-> s, e |-> e, raised |-> FALSE]

(* ---------------- sequences ---------------- *)

\* list.remove(x): drop the first element equal to x
RECURSIVE Remove(_, _)
Remove(seq, x) ==
  IF seq = << >> THEN << >>
  ELSE IF Head(seq) = x THEN Tail(seq)
  ELSE <<Head(seq)>> \o Remove(Tail(seq), x)

Range(seq) == {seq[i] : i \in 1..Len(seq)}

\* the calls of one kind in a call log
OfKind(log, kind) == SelectSeq(log, LAMBDA c : c.kind = kind)

(* ---------------- text ---------------- *)

\* Python's `word in text`, for the words the code looks for (each is a
\* token of its own in the messages below)
Includes(text, word) == \E i \in 1..Len(text) : text[i] = word

\* str.strip(): drop leading and trailing whitespace tokens
RECURSIVE LStrip(_)
LStrip(toks) ==
  IF toks # << >> /\ Head(toks) = " " THEN LStrip(Tail(toks)) ELSE toks

RECURSIVE RStrip(_)
RStrip(toks) ==
  IF toks # << >> /\ toks[Len(toks)] = " "
  THEN RStrip(SubSeq(toks, 1, Len(toks) - 1)) ELSE toks

Strip(toks) == RStrip(LStrip(toks))

\* str(e) of an exception raised by the engine
EngineError == <<"<engine error>">>

\* the URLs the model uses; "" (no tokens) stands for None and for ""
NoUrl == << >>

Urls ==
  { <<"https://", "example.com">>,
    <<"https://", "example.com/", "Successfully">> }

\* what page.goto may do
NavOutcomes == {"ok", "none", "status", "timeout", "net", "other"}

\* tools.navigate(page, url): one goto call, every outcome turned into text
Navigate(fr, page, url, nav) ==
  LET log == Append(fr.calls, Call("goto", page, url, nav))
      text ==
        CASE nav = "none"    -> <<"Navigation to ">> \o url \o <<" failed: No response received">>
          [] nav = "status"  -> <<"Navigation to ">> \o url \o <<" completed with status ", "404">>
          [] nav = "ok"      -> <<"Successfully", " navigated to: ">> \o url
          [] nav = "timeout" -> <<"Navigation to ">> \o url \o <<" timed out: ", "Timeout 30000ms exceeded">>
          [] nav = "net"     -> <<"Network error navigating to ">> \o url \o <<": ", "net::ERR_FAILED">>
          [] OTHER           -> <<"Failed to navigate to ">> \o url \o <<": ">> \o EngineError
  IN [text |-> text, fr |-> [fr EXCEPT !.calls = log]]

(* ---------------- action executors ---------------- *)

\* a selector argument that is None or ""
NoSelector == ""

\* fill_form, the loop over form_data.items(): page.fill raises for the
\* selectors in fails; the marks stand for the check mark and the cross
RECURSIVE FillFields(_, _, _)
FillFields(form, fails, acc) ==
  IF form = << >> THEN acc
  ELSE LET selector == Head(form)
       IN FillFields(Tail(form), fails,
            IF selector \in fails
            THEN [acc EXCEPT !.failed_fields = Append(@, <<"[x] ", selector, ": ">> \o EngineError)]
            ELSE [acc EXCEPT !.results = Append(@, <<"[v] ", selector, ": filled">>)])

\* PlaywrightTools.fill_form: form is the selectors of form_data in dict
\* order, submit is what page.click(submit_selector) does; the result is
\* the summary line and the lines after it
FillForm(form, fails, submit_selector, submit) ==
  LET a == FillFields(form, fails, [failed_fields |-> << >>, results |-> << >>])
      results ==
        IF submit_selector = NoSelector THEN a.results
        ELSE IF submit = "ok"
        THEN Append(a.results, <<"[v] ", "Form submitted via ", submit_selector>>)
        ELSE Append(a.results, <<"[x] ", "Failed to submit form: ">> \o EngineError)
      failed_fields == a.failed_fields
      summary == <<"Filled ", ToString(Len(results) - Len(failed_fields)), "/",
                   ToString(Len(form)), " fields">>
  IN [summary |-> IF failed_fields # << >>
                  THEN summary \o <<" (", ToString(Len(failed_fields)), " failed)">>
                  ELSE summary,
      lines |-> results \o failed_fields]

\* the smaller of two numbers
Min(a, b) == IF a <= b THEN a ELSE b

\* the script get_links evaluates in the page: links.slice(0, limit) of the
\* page's a[href] elements (the page's links are numbered 1..total; a
\* negative limit counts from the end)
SliceLinks(total, limit) ==
  LET n == IF limit >= 0 THEN Min(total, limit)
           ELSE IF total + limit > 0 THEN total + limit ELSE 0
  IN [i \in 1..n |-> i]

\* PlaywrightTools.get_links on a page with total links: the lines of the
\* result, or the failure text when page.evaluate raises
GetLinks(total, limit, evaluate) ==
  IF evaluate # "ok" THEN << <<"Failed to get links: ">> \o EngineError >>
  ELSE LET links == SliceLinks(total, limit)
       IN IF links = << >> THEN << <<"No links found on the page">> >>
          ELSE << <<"Found ", ToString(Len(links)), " links:">> >>
               \o [i \in 1..Len(links) |-> <<ToString(i), ". ", "link", ToString(links[i])>>]
               \o (IF Len(links) = limit
                   THEN << <<"(Limited to first ", ToString(limit), " links)">> >>
                   ELSE << >>)

\* the text_content() values of the model: None, "", whitespace, and
\* texts with and without surrounding whitespace
NoText == <<"None">>

TextContents == {NoText, << >>, <<" ">>, <<" ", "a", " ">>, <<"b">>}

\* Python truth of a text_content() value: None and "" are false
Truthy(text) == text # NoText /\ text # << >>

\* get_text, the loop of the fallback: the stripped texts of the elements
\* whose text is truthy
RECURSIVE StrippedTexts(_)
StrippedTexts(elements) ==
  IF elements = << >> THEN << >>
  ELSE IF Truthy(Head(elements))
       THEN <<Strip(Head(elements))>> \o StrippedTexts(Tail(elements))
       ELSE StrippedTexts(Tail(elements))

\* " | ".join(texts)
RECURSIVE Join(_)
Join(texts) ==
  IF texts = << >> THEN << >>
  ELSE IF Len(texts) = 1 THEN Head(texts)
  ELSE Head(texts) \o <<" | ">> \o Join(Tail(texts))

\* what wait_for_selector does in get_text: raises, returns None, or
\* returns an element with the given text_content()
Single(out, text) == [out |-> out, text |-> text]

\* what query_selector_all does in the fallback of get_text: raises, or
\* returns elements with the given text_content() values
Elements(out, texts) == [out |-> out, texts |-> texts]

\* PlaywrightTools.get_text
GetText(selector, single, elements) ==
  LET failure == <<"Failed to get text from element ", selector, ": ">> \o EngineError
  IN IF single.out = "none" THEN << >>
     ELSE IF single.out = "element"
     THEN (IF Truthy(single.text) THEN single.text ELSE << >>)
     ELSE IF elements.out = "raise" THEN failure
     ELSE IF elements.texts # << >>
     THEN LET texts == StrippedTexts(elements.texts)
          IN IF texts # << >> THEN Join(texts) ELSE << >>
     ELSE failure

\* how an engine call of click can fail
ClickFailures == {"timeout", "not_visible", "intercept", "other"}

\* str(e) of the exception of a failed engine call of click
ClickError(failure, timeout) ==
  CASE failure = "timeout"     -> <<"Timeout", " ", ToString(timeout), "ms exceeded.">>
    [] failure = "not_visible" -> <<"Element is ", "not visible">>
    [] failure = "intercept"   -> <<"<div> ", "intercept", "s pointer events">>
    [] OTHER                   -> EngineError

\* str.lower(), for the tokens of the messages above
Lower(text) ==
  [i \in 1..Len(text) |->
     CASE text[i] = "Timeout"     -> "timeout"
       [] text[i] = "Element is " -> "element is "
       [] OTHER                   -> text[i]]

\* mutant of ClickExcept: the timeout branch is lost
ClickExcept_NoTimeoutBranch(selector, timeout, error_msg) ==
  IF Includes(Lower(error_msg), "not visible")
  THEN <<"Failed to click element", " ", selector, ": element is not visible">>
  ELSE IF Includes(Lower(error_msg), "intercept")
  THEN <<"Failed to click element", " ", selector,
         ": element is intercepted by another element">>
  ELSE <<"Failed to click element", " ", selector, ": ">> \o error_msg

\* click, the except clause: the result text for str(e) = error_msg
ClickExcept(selector, timeout, error_msg) ==
  IF Includes(Lower(error_msg), "timeout")
  THEN <<"Timeout clicking element", " ", selector, ": element not clickable within ",
         ToString(timeout), "ms">>
  ELSE IF Includes(Lower(error_msg), "not visible")
  THEN <<"Failed to click element", " ", selector, ": element is not visible">>
  ELSE IF Includes(Lower(error_msg), "intercept")
  THEN <<"Failed to click element", " ", selector,
         ": element is intercepted by another element">>
  ELSE <<"Failed to click element", " ", selector, ": ">> \o error_msg

\* PlaywrightTools.click: run tells what each engine call does, in order
\* wait_for_selector, query_selector, scroll_into_view_if_needed, click
Click(selector, timeout, run) ==
  IF run.wait # "ok" THEN ClickExcept(selector, timeout, ClickError(run.wait, timeout))
  ELSE IF run.query = "none" THEN <<"Element ", selector, " not found">>
  ELSE IF run.scroll # "ok" THEN ClickExcept(selector, timeout, ClickError(run.scroll, timeout))
  ELSE IF run.click # "ok" THEN ClickExcept(selector, timeout, ClickError(run.click, timeout))
  ELSE <<"Successfully", " clicked element: ", selector>>

(* ---------------- session manager ---------------- *)

\* one statement that makes an engine call: skipped when an exception is
\* pending; logs the call; raises when the engine makes it fail, else
\* continues with the frame `then`
Await(fr, kind, on, F, then) ==
  IF fr.raised THEN fr
  ELSE IF <<kind, on>> \in F
       THEN [fr EXCEPT !.calls = Append(@, Call(kind, on, << >>, "raised")), !.raised = TRUE]
       ELSE [then EXCEPT !.calls = Append(fr.calls, Call(kind, on, << >>, "ok"))]

\* mutant of EnsureStart: the `if not self.playwright` guard is lost
EnsureStart_NoGuard(fr, F) ==
  IF fr.raised THEN fr
  ELSE LET h == fr.e.started + 1
       IN Await(fr, "start", h, F,
                [fr EXCEPT !.s.playwright = h, !.e.started = h])

\* _ensure_browser: if not self.playwright: start()
EnsureStart(fr, F) ==
  IF fr.raised \/ fr.s.playwright # NULL THEN fr
  ELSE LET h == fr.e.started + 1
       IN Await(fr, "start", h, F,
                [fr EXCEPT !.s.playwright = h, !.e.started = h])

\* mutant of EnsureLaunch: the `if not self.browser` guard is lost
EnsureLaunch_NoGuard(fr, F) ==
  IF fr.raised THEN fr
  ELSE LET h == fr.e.launched + 1
       IN Await(fr, "launch", h, F,
                [fr EXCEPT !.s.browser = h, !.e.launched = h])

\* _ensure_browser: if not self.browser: chromium.launch(...)
EnsureLaunch(fr, F) ==
  IF fr.raised \/ fr.s.browser # NULL THEN fr
  ELSE LET h == fr.e.launched + 1
       IN Await(fr, "launch", h, F,
                [fr EXCEPT !.s.browser = h, !.e.launched = h])

\* _ensure_browser: if not self.context: browser.new_context(...)
EnsureContext(fr, F) ==
  IF fr.raised \/ fr.s.context # NULL THEN fr
  ELSE LET h == fr.e.contexts + 1
       IN Await(fr, "new_context", h, F,
                [fr EXCEPT !.s.context = h, !.e.contexts = h])

\* mutant of EnsurePage: the page is not appended to self.pages
EnsurePage_NoAppend(fr, F) ==
  IF fr.raised \/ fr.s.current_page # NULL THEN fr
  ELSE LET h == fr.e.created + 1
       IN Await(fr, "new_page", h, F,
                [fr EXCEPT !.s.current_page = h, !.e.created = h])

\* _ensure_browser: if not self.current_page: new_page(); pages.append
EnsurePage(fr, F) ==
  IF fr.raised \/ fr.s.current_page # NULL THEN fr
  ELSE LET h == fr.e.created + 1
       IN Await(fr, "new_page", h, F,
                [fr EXCEPT !.s.current_page = h,
                           !.s.pages = Append(@, h),
                           !.e.created = h])

\* PlaywrightMCPServer._ensure_browser
EnsureBrowser(fr, F) ==
  EnsurePage(EnsureContext(EnsureLaunch(EnsureStart(fr, F), F), F), F)

\* mutant of NewTabPage: the new page is not made the current page
NewTabPage_KeepsCurrent(fr, F) ==
  LET f1 == IF fr.s.context = NULL THEN EnsureBrowser(fr, F) ELSE fr
      h  == f1.e.created + 1
  IN Await(f1, "new_page", h, F,
           [f1 EXCEPT !.s.pages = Append(@, h), !.e.created = h])

\* mutant of NewTabPage: the new page is not appended to self.pages
NewTabPage_NoAppend(fr, F) ==
  LET f1 == IF fr.s.context = NULL THEN EnsureBrowser(fr, F) ELSE fr
      h  == f1.e.created + 1
  IN Await(f1, "new_page", h, F,
           [f1 EXCEPT !.s.current_page = h, !.e.created = h])

\* mutant of NewTabPage: the new page is put in front of self.pages
NewTabPage_Prepend(fr, F) ==
  LET f1 == IF fr.s.context = NULL THEN EnsureBrowser(fr, F) ELSE fr
      h  == f1.e.created + 1
  IN Await(f1, "new_page", h, F,
           [f1 EXCEPT !.s.pages = <<h>> \o @,
                      !.s.current_page = h,
                      !.e.created = h])

\* _new_tab, the statements inside try up to the navigation
NewTabPage(fr, F) ==
  LET f1 == IF fr.s.context = NULL THEN EnsureBrowser(fr, F) ELSE fr
      h  == f1.e.created + 1
  IN Await(f1, "new_page", h, F,
           [f1 EXCEPT !.s.pages = Append(@, h),
                      !.s.current_page = h,
                      !.e.created = h])

\* the decimal text of a small count
Digits(n) == <<ToString(n)>>

\* PlaywrightMCPServer._new_tab: returns the frame and the result text;
\* every exception is caught and turned into text
NewTab(fr, url, F, nav) ==
  LET f1 == NewTabPage(fr, F)
  IN IF f1.raised
     THEN [text |-> <<"Failed to open new tab: ">> \o EngineError,
           fr |-> [f1 EXCEPT !.raised = FALSE]]
     ELSE IF url # NoUrl
     THEN LET n == Navigate(f1, f1.s.current_page, url, nav)
          IN [text |-> IF Includes(n.text, "Successfully")
                       THEN <<"New tab opened and navigated to: ">> \o url
                       ELSE <<"New tab opened but navigation failed: ">> \o n.text,
              fr |-> n.fr]
     ELSE [text |-> <<"New tab opened (total tabs: ">> \o Digits(Len(f1.s.pages)) \o <<")">>,
           fr |-> f1]

\* the close of the current page and the result text of _close_tab, the
\* session fields already updated in frame f1
ClosePage(f1, page_to_close, F) ==
  LET f2 == Await(f1, "page.close", page_to_close, F, f1)
  IN IF f2.raised
     THEN [text |-> <<"Failed to close tab: ">> \o EngineError,
           fr |-> [f2 EXCEPT !.raised = FALSE]]
     ELSE [text |-> <<"Tab closed (remaining tabs: ">> \o Digits(Len(f1.s.pages)) \o <<")">>,
           fr |-> f2]

\* mutant of CloseTab: the last-tab test is `len(self.pages) < 1`
CloseTab_OffByOne(fr, F) ==
  IF fr.s.current_page = NULL
  THEN [text |-> <<"No active tab to close">>, fr |-> fr]
  ELSE IF Len(fr.s.pages) < 1
  THEN [text |-> <<"Cannot close the last tab">>, fr |-> fr]
  ELSE
    LET rest == Remove(fr.s.pages, fr.s.current_page)
    IN ClosePage([fr EXCEPT !.s.pages = rest,
                            !.s.current_page = IF rest # << >> THEN rest[Len(rest)] ELSE NULL],
                 fr.s.current_page, F)

\* mutant of CloseTab: the new current page is self.pages[0]
CloseTab_FirstRemaining(fr, F) ==
  IF fr.s.current_page = NULL
  THEN [text |-> <<"No active tab to close">>, fr |-> fr]
  ELSE IF Len(fr.s.pages) <= 1
  THEN [text |-> <<"Cannot close the last tab">>, fr |-> fr]
  ELSE
    LET rest == Remove(fr.s.pages, fr.s.current_page)
    IN ClosePage([fr EXCEPT !.s.pages = rest,
                            !.s.current_page = IF rest # << >> THEN rest[1] ELSE NULL],
                 fr.s.current_page, F)

\* mutant of CloseTab: self.current_page is not reassigned
CloseTab_StaleCurrent(fr, F) ==
  IF fr.s.current_page = NULL
  THEN [text |-> <<"No active tab to close">>, fr |-> fr]
  ELSE IF Len(fr.s.pages) <= 1
  THEN [text |-> <<"Cannot close the last tab">>, fr |-> fr]
  ELSE
    LET rest == Remove(fr.s.pages, fr.s.current_page)
    IN ClosePage([fr EXCEPT !.s.pages = rest], fr.s.current_page, F)

\* mutant of CloseTab: the last tab is not refused
CloseTab_NoLastTabTest(fr, F) ==
  IF fr.s.current_page = NULL
  THEN [text |-> <<"No active tab to close">>, fr |-> fr]
  ELSE
    LET rest == Remove(fr.s.pages, fr.s.current_page)
    IN IF rest = << >>
       THEN \* self.pages[-1] raises IndexError
            [text |-> <<"Failed to close tab: ", "list index out of range">>,
             fr |-> [fr EXCEPT !.s.pages = rest]]
       ELSE ClosePage([fr EXCEPT !.s.pages = rest, !.s.current_page = rest[Len(rest)]],
                      fr.s.current_page, F)

\* PlaywrightMCPServer._close_tab
CloseTab(fr, F) ==
  IF fr.s.current_page = NULL
  THEN [text |-> <<"No active tab to close">>, fr |-> fr]
  ELSE IF Len(fr.s.pages) <= 1
  THEN [text |-> <<"Cannot close the last tab">>, fr |-> fr]
  ELSE IF fr.s.current_page \notin Range(fr.s.pages)
  THEN \* list.remove raises ValueError
       [text |-> <<"Failed to close tab: ", "list.remove(x): x not in list">>, fr |-> fr]
  ELSE
    LET page_to_close == fr.s.current_page
        rest == Remove(fr.s.pages, page_to_close)
    IN ClosePage([fr EXCEPT !.s.pages = rest,
                            !.s.current_page = IF rest # << >> THEN rest[Len(rest)] ELSE NULL],
                 page_to_close, F)

\* cleanup: for page in self.pages: await page.close()
RECURSIVE ClosePages(_, _, _)
ClosePages(fr, ps, F) ==
  IF ps = << >> THEN fr
  ELSE ClosePages(Await(fr, "page.close", Head(ps), F, fr), Tail(ps), F)

\* mutant of Cleanup: the browser is closed before the context
Cleanup_BrowserFirst(fr, F) ==
  LET f1 == ClosePages(fr, fr.s.pages, F)
      f2 == IF f1.s.browser # NULL THEN Await(f1, "browser.close", f1.s.browser, F, f1) ELSE f1
      f3 == IF f2.s.context # NULL THEN Await(f2, "context.close", f2.s.context, F, f2) ELSE f2
      f4 == IF f3.s.playwright # NULL THEN Await(f3, "stop", f3.s.playwright, F, f3) ELSE f3
  IN [text |-> IF f4.raised THEN <<"Error during cleanup: ">> \o EngineError ELSE << >>,
      fr |-> [f4 EXCEPT !.raised = FALSE]]

\* mutant of Cleanup: self.browser is set to None after its close
Cleanup_NullsBrowser(fr, F) ==
  LET f1 == ClosePages(fr, fr.s.pages, F)
      f2 == IF f1.s.context # NULL THEN Await(f1, "context.close", f1.s.context, F, f1) ELSE f1
      f3 == IF f2.s.browser # NULL
            THEN Await(f2, "browser.close", f2.s.browser, F, [f2 EXCEPT !.s.browser = NULL])
            ELSE f2
      f4 == IF f3.s.playwright # NULL THEN Await(f3, "stop", f3.s.playwright, F, f3) ELSE f3
  IN [text |-> IF f4.raised THEN <<"Error during cleanup: ">> \o EngineError ELSE << >>,
      fr |-> [f4 EXCEPT !.raised = FALSE]]

\* PlaywrightMCPServer.cleanup: one try block around all four steps; the
\* first exception ends it and is logged
Cleanup(fr, F) ==
  LET f1 == ClosePages(fr, fr.s.pages, F)
      f2 == IF f1.s.context # NULL THEN Await(f1, "context.close", f1.s.context, F, f1) ELSE f1
      f3 == IF f2.s.browser # NULL THEN Await(f2, "browser.close", f2.s.browser, F, f2) ELSE f2
      f4 == IF f3.s.playwright # NULL THEN Await(f3, "stop", f3.s.playwright, F, f3) ELSE f3
  IN [text |-> IF f4.raised THEN <<"Error during cleanup: ">> \o EngineError ELSE << >>,
      fr |-> [f4 EXCEPT !.raised = FALSE]]

(* ---------------- argument validator ---------------- *)

\* an argument value: a str (tokens), an int/float, a bool, a dict (form)
\* or anything else (None, a list, ...)
Str(toks)  == [form |-> << >>, t |-> "str",   str |-> toks,  num |-> 0]
Num(n)     == [form |-> << >>, t |-> "num",   str |-> << >>, num |-> n]
Bool(b)    == [form |-> << >>, t |-> "bool",  str |-> << >>, num |-> IF b THEN 1 ELSE 0]
Dict(kvs)  == [form |-> kvs,   t |-> "dict",  str |-> << >>, num |-> 0]
Other      == [form |-> << >>, t |-> "other", str |-> << >>, num |-> 0]

\* isinstance(v, (int, float)): bool is a subclass of int
IsNumber(v) == v.t \in {"num", "bool"}

IsStr(v) == v.t = "str"

\* url.startswith("http://") or ("https://") or ("file://")
HasScheme(toks) ==
  toks # << >> /\ Head(toks) \in {"http://", "https://", "file://"}

DefaultTimeout == 5000
MaxTimeout == 60000

Has(args, k) == k \in DOMAIN args

\* mutant of ValidTimeout: the cap at 60 seconds is lost
ValidTimeout_NoCap(args) ==
  IF ~Has(args, "timeout") THEN args
  ELSE LET timeout == args["timeout"]
       IN IF ~IsNumber(timeout) \/ timeout.num <= 0
          THEN [args EXCEPT !["timeout"] = Num(DefaultTimeout)]
          ELSE args

\* the timeout rule: replaced, capped or left alone
ValidTimeout(args) ==
  IF ~Has(args, "timeout") THEN args
  ELSE LET timeout == args["timeout"]
       IN IF ~IsNumber(timeout) \/ timeout.num <= 0
          THEN [args EXCEPT !["timeout"] = Num(DefaultTimeout)]
          ELSE IF timeout.num > MaxTimeout
          THEN [args EXCEPT !["timeout"] = Num(MaxTimeout)]
          ELSE args

\* the form_data rule: the first offending entry decides the message
RECURSIVE FormError(_)
FormError(kvs) ==
  IF kvs = << >> THEN << >>
  ELSE IF Strip(Head(kvs).key) = << >>
  THEN <<"Form data keys must be non-empty strings (CSS selectors)">>
  ELSE IF ~IsStr(Head(kvs).val)
  THEN <<"Form data values must be strings">>
  ELSE FormError(Tail(kvs))

\* the first ValueError _validate_arguments raises, << >> when none
ValidationError(args) ==
  IF Has(args, "selector")
     /\ (~IsStr(args["selector"]) \/ Strip(args["selector"].str) = << >>)
  THEN <<"Selector must be a non-empty string">>
  ELSE IF Has(args, "url")
     /\ (~IsStr(args["url"]) \/ Strip(args["url"].str) = << >>)
  THEN <<"URL must be a non-empty string">>
  ELSE IF Has(args, "url") /\ ~HasScheme(args["url"].str)
  THEN <<"URL must start with http://, https://, or file://">>
  ELSE IF Has(args, "text") /\ ~IsStr(args["text"])
  THEN <<"Text must be a string">>
  ELSE IF Has(args, "script")
     /\ (~IsStr(args["script"]) \/ Strip(args["script"].str) = << >>)
  THEN <<"Script must be a non-empty string">>
  ELSE IF Has(args, "form_data") /\ args["form_data"].t # "dict"
  THEN <<"Form data must be a dictionary">>
  ELSE IF Has(args, "form_data")
  THEN FormError(args["form_data"].form)
  ELSE << >>

\* PlaywrightMCPServer._validate_arguments: the sanitized bag, or the
\* ValueError it raises (arguments None is the empty bag)
ValidateArguments(name, args) ==
  LET a1 == ValidTimeout(args)
      a2 == IF Has(a1, "selector") /\ IsStr(a1["selector"])
            THEN [a1 EXCEPT !["selector"] = Str(Strip(@.str))]
            ELSE a1
      err == ValidationError(a1)
  IN [args |-> a2, ok |-> err = << >>, error |-> err]

(* ---------------- dispatcher ---------------- *)

\* the names handle_call_tool routes to PlaywrightTools executors
ExecutorTools ==
  {"browser_click", "browser_type", "browser_screenshot", "browser_get_text",
   "browser_wait_for_selector", "browser_evaluate", "browser_get_title",
   "browser_get_url", "browser_select_option", "browser_check_checkbox",
   "browser_uncheck_checkbox", "browser_hover", "browser_scroll_to",
   "browser_get_attribute", "browser_wait_for_load_state", "browser_go_back",
   "browser_go_forward", "browser_reload", "browser_fill_form",
   "browser_get_links"}

\* every name the if/elif chain of handle_call_tool knows
KnownTools ==
  ExecutorTools \cup {"browser_navigate", "browser_new_tab", "browser_close_tab"}

\* what an executor may do: succeed ("ok"), catch the failure of its engine
\* call and return a failure text ("fail"), or let an exception out of its
\* own try blocks ("raise")
ExecOutcomes == {"ok", "fail", "raise"}

\* arguments.get("url"): the url's tokens, NoUrl when the bag has none
GetUrl(args) == IF Has(args, "url") THEN args["url"].str ELSE NoUrl

\* mutant of Executor: an executor that fails drops the current page
Executor_DropsPage(fr, name, x) ==
  [text |-> CASE x = "ok"   -> <<"Successfully", " ran ", name>>
              [] x = "fail" -> <<"Failed to run ", name, ": ">> \o EngineError
              [] OTHER      -> << >>,
   fr |-> [fr EXCEPT !.calls = Append(@, Call(name, fr.s.current_page, << >>, IF x = "ok" THEN "ok" ELSE "raised")),
                     !.raised = (x = "raise"),
                     !.s.current_page = IF x = "ok" THEN @ ELSE NULL]]

\* a PlaywrightTools executor run against the current page: it works on
\* the page only, never on the session
Executor(fr, name, x) ==
  [text |-> CASE x = "ok"   -> <<"Successfully", " ran ", name>>
              [] x = "fail" -> <<"Failed to run ", name, ": ">> \o EngineError
              [] OTHER      -> << >>,
   fr |-> [fr EXCEPT !.calls = Append(@, Call(name, fr.s.current_page, << >>, IF x = "ok" THEN "ok" ELSE "raised")),
                     !.raised = (x = "raise")]]

\* mutant of Route: a name no branch knows falls into the tab branch
Route_UnknownOpensTab(fr, name, args, F, nav, x) ==
  IF name = "browser_navigate"
  THEN Navigate(fr, fr.s.current_page,
                IF Has(args, "url") THEN GetUrl(args) ELSE <<"None">>,
                IF Has(args, "url") THEN nav ELSE "other")
  ELSE IF name = "browser_close_tab" THEN CloseTab(fr, F)
  ELSE IF name \in ExecutorTools THEN Executor(fr, name, x)
  ELSE NewTab(fr, GetUrl(args), F, nav)

\* handle_call_tool: the if/elif chain on the tool name
Route(fr, name, args, F, nav, x) ==
  IF name = "browser_navigate"
  THEN Navigate(fr, fr.s.current_page,
                IF Has(args, "url") THEN GetUrl(args) ELSE <<"None">>,
                IF Has(args, "url") THEN nav ELSE "other")
  ELSE IF name = "browser_new_tab" THEN NewTab(fr, GetUrl(args), F, nav)
  ELSE IF name = "browser_close_tab" THEN CloseTab(fr, F)
  ELSE IF name \in ExecutorTools THEN Executor(fr, name, x)
  ELSE [text |-> <<"Unknown tool", ": ", name>>, fr |-> fr]

\* the text of the except branch of handle_call_tool
ErrorText(name, msg) == <<"Error executing ", name, ": ">> \o msg

\* handle_call_tool, the statements inside try: validate, ensure the
\* browser, route; the frame is raised when an exception leaves them, error
\* being its str(e)
TryCallTool(fr, name, args, F, nav, x) ==
  LET v == ValidateArguments(name, args)
      f1 == EnsureBrowser(fr, F)
  IN IF ~v.ok
     THEN [text |-> << >>, fr |-> [fr EXCEPT !.raised = TRUE], error |-> v.error]
     ELSE IF f1.raised
     THEN [text |-> << >>, fr |-> f1, error |-> EngineError]
     ELSE IF f1.s.current_page = NULL
     THEN [text |-> <<"No active page available">>, fr |-> f1, error |-> << >>]
     ELSE LET r == Route(f1, name, v.args, F, nav, x)
          IN [text |-> r.text, fr |-> r.fr, error |-> EngineError]

\* mutant of HandleCallTool: the except clause is lost
HandleCallTool_NoCatch(fr, name, args, F, nav, x) ==
  LET b == TryCallTool(fr, name, args, F, nav, x)
  IN [text |-> b.text, fr |-> b.fr, caught |-> FALSE]

\* mutant of HandleCallTool: _ensure_browser runs before the validation
HandleCallTool_EnsureFirst(fr, name, args, F, nav, x) ==
  LET f1 == EnsureBrowser(fr, {})
      b == TryCallTool(f1, name, args, F, nav, x)
  IN IF b.fr.raised
     THEN [text |-> ErrorText(name, b.error), fr |-> [b.fr EXCEPT !.raised = FALSE],
           caught |-> TRUE]
     ELSE [text |-> b.text, fr |-> b.fr, caught |-> FALSE]

\* handle_call_tool: every exception of the try block becomes the text of
\* the except clause; caught tells that the except clause ran
HandleCallTool(fr, name, args, F, nav, x) ==
  LET b == TryCallTool(fr, name, args, F, nav, x)
  IN IF b.fr.raised
     THEN [text |-> ErrorText(name, b.error), fr |-> [b.fr EXCEPT !.raised = FALSE],
           caught |-> TRUE]
     ELSE [text |-> b.text, fr |-> b.fr, caught |-> FALSE]

\* mutant of Catalog: a tool is listed that handle_call_tool has no
\* branch for
Catalog_Unrouted ==
  <<"browser_navigate", "browser_click", "browser_type", "browser_screenshot",
    "browser_get_text", "browser_wait_for_selector", "browser_evaluate",
    "browser_new_tab", "browser_close_tab", "browser_get_title",
    "browser_get_url", "browser_select_option", "browser_check_checkbox",
    "browser_uncheck_checkbox", "browser_hover", "browser_scroll_to",
    "browser_get_attribute", "browser_wait_for_load_state", "browser_go_back",
    "browser_go_forward", "browser_reload", "browser_fill_form",
    "browser_get_links", "browser_pdf">>

\* the names handle_list_tools returns, in order
Catalog ==
  <<"browser_navigate", "browser_click", "browser_type", "browser_screenshot",
    "browser_get_text", "browser_wait_for_selector", "browser_evaluate",
    "browser_new_tab", "browser_close_tab", "browser_get_title",
    "browser_get_url", "browser_select_option", "browser_check_checkbox",
    "browser_uncheck_checkbox", "browser_hover", "browser_scroll_to",
    "browser_get_attribute", "browser_wait_for_load_state", "browser_go_back",
    "browser_go_forward", "browser_reload", "browser_fill_form",
    "browser_get_links">>

\* mutant of HandleListTools: the browser is brought up when the catalog is
\* asked for
HandleListTools_Eager(fr) ==
  [text |-> Catalog, fr |-> [EnsureBrowser(fr, {}) EXCEPT !.raised = FALSE]]

\* handle_list_tools: returns the catalog, touches nothing
HandleListTools(fr) == [text |-> Catalog, fr |-> fr]

(* ---------------- inputs ---------------- *)

\* The engine decides which calls raise: a fault is a pair <<kind, handle>>,
\* a creation call being named by the handle it would return.  The first
\* exception ends the engine calls of every handler, so an operation meets
\* at most one fault, and only a call it can make from the present state.
FaultSets(universe) == {{}} \cup {{f} : f \in universe}

\* the calls _ensure_browser would make for session s
EnsureFaults(s, e) ==
  (IF s.playwright = NULL THEN {<<"start", e.started + 1>>} ELSE {}) \cup
  (IF s.browser = NULL THEN {<<"launch", e.launched + 1>>} ELSE {}) \cup
  (IF s.context = NULL THEN {<<"new_context", e.contexts + 1>>} ELSE {}) \cup
  (IF s.current_page = NULL THEN {<<"new_page", e.created + 1>>} ELSE {})

\* the page creations _new_tab may reach (after an _ensure_browser page)
NewPageFaults(e) == {<<"new_page", e.created + 1>>, <<"new_page", e.created + 2>>}

\* the closes of the pages of session s
PageCloseFaults(s) == {<<"page.close", p>> : p \in Range(s.pages)}

\* every close or stop cleanup would make for session s
CleanupFaults(s) ==
  PageCloseFaults(s) \cup
  (IF s.context # NULL THEN {<<"context.close", s.context>>} ELSE {}) \cup
  (IF s.browser # NULL THEN {<<"browser.close", s.browser>>} ELSE {}) \cup
  (IF s.playwright # NULL THEN {<<"stop", s.playwright>>} ELSE {})

\* names no branch of handle_call_tool knows
UnknownTools == {"browser_nope", ""}

\* the names the transport sends in the model: the session tools, the
\* navigation, a sample of the executors, and the unknown names
CalledTools ==
  {"browser_navigate", "browser_new_tab", "browser_close_tab",
   "browser_click", "browser_get_text", "browser_fill_form", "browser_get_links"}
  \cup UnknownTools

\* arguments None, or a bag without fields
EmptyBag == << >>

GoodUrlBags ==
  { "url" :> Str(<<"https://", "example.com">>),
    "url" :> Str(<<"https://", "example.com/", "Successfully">>) }

BadUrlBag == "url" :> Str(<<"ftp://", "example.com">>)

GoodSelectorBag == "selector" :> Str(<<" ", "#a", " ">>)

BadSelectorBag == "selector" :> Str(<<" ">>)

\* the argument bags the model sends with a tool name
ArgBags(name) ==
  IF name \in {"browser_navigate", "browser_new_tab"}
  THEN {EmptyBag, BadUrlBag} \cup GoodUrlBags
  ELSE IF name \in ExecutorTools
  THEN {EmptyBag, GoodSelectorBag, BadSelectorBag}
  ELSE {EmptyBag, BadUrlBag}

\* the faults a tool call can meet; none is reached when validation fails
ToolFaults(name, args, s, e) ==
  IF ~ValidateArguments(name, args).ok THEN {}
  ELSE EnsureFaults(s, e) \cup
       (IF name = "browser_new_tab" THEN NewPageFaults(e) ELSE {}) \cup
       (IF name = "browser_close_tab" THEN PageCloseFaults(s) ELSE {})

\* what page.goto can do in an operation that navigates to url unless the
\* fault in F ends it before
NavFor(url, F) == IF url # NoUrl /\ F = {} THEN NavOutcomes ELSE {"ok"}

\* what the navigation of a tool call can do
ToolNav(name, args, F) ==
  IF name \in {"browser_navigate", "browser_new_tab"} /\ ValidateArguments(name, args).ok
  THEN NavFor(GetUrl(args), F) ELSE {"ok"}

\* what the executor of a tool call can do
ToolExec(name, args, F) ==
  IF name \in ExecutorTools /\ ValidateArguments(name, args).ok /\ F = {}
  THEN ExecOutcomes ELSE {"ok"}

(* ---------------- state machine ---------------- *)

\* the record of the last operation: what was called, with what, what it
\* returned, and the session and engine before it
Record(op, name, url, args, text) ==
  [raised |-> FALSE, text |-> text, url |-> url, args |-> args, name |-> name,
   caught |-> FALSE, op |-> op, pre |-> Self, before |-> engine,
   validated |-> ValidateArguments(name, args)]

\* async_main before anything left `await server.run()`: pc is its
\* position, way is how server.run was left, pending the exception that
\* will leave async_main, log the messages logged, code the exit code
\* of the process (-1 while it runs)
FreshMain ==
  [log |-> << >>, pc |-> "run", way |-> "none", pending |-> "none", code |-> 0 - 1]

\* the two handle_call_tool invocations of the overlap specification
Tasks == {"A", "B"}

\* no invocation has begun: pc is each one's position, h the handle its
\* pending engine call will return, made what the engine has created
FreshTasks ==
  [h |-> [t \in Tasks |-> NULL],
   pc |-> [t \in Tasks |-> "idle"],
   made |-> [pages |-> {}, contexts |-> {}, engines |-> {}, browsers |-> {}]]

\* PlaywrightMCPServer.__init__: every handle None, no pages
Init ==
  /\ playwright = NULL
  /\ browser = NULL
  /\ context = NULL
  /\ pages = << >>
  /\ current_page = NULL
  /\ engine = FreshEngine
  /\ calls = << >>
  /\ cleanups = 0
  /\ script = [phase |-> "open", opens |-> 0, closes |-> 0, first |-> NULL]
  /\ last = [raised |-> FALSE, text |-> << >>, url |-> NoUrl, args |-> EmptyBag,
             name |-> "", caught |-> FALSE, op |-> "init", pre |-> FreshSelf,
             before |-> FreshEngine,
             validated |-> ValidateArguments("", EmptyBag)]
  /\ main = FreshMain
  /\ tasks = FreshTasks

\* the run so far as a tab script: from the fresh session, openTab calls
\* that all succeeded, then closeTab calls whose engine calls all succeeded;
\* first is the page the first openTab opened; "off" once the run is
\* anything else
ScriptNext(op, name, r) ==
  LET open  == op = "new_tab" \/ (op = "call_tool" /\ name = "browser_new_tab")
      close == op = "close_tab" \/ (op = "call_tool" /\ name = "browser_close_tab")
      off   == [phase |-> "off", opens |-> 0, closes |-> 0, first |-> NULL]
  IN IF script.phase = "off" \/ ~AllOk(r.fr.calls) THEN off
     ELSE IF open /\ script.phase = "open"
             /\ Head(r.text) \in {"New tab opened (total tabs: ", "New tab opened and navigated to: "}
     THEN [script EXCEPT !.opens = @ + 1,
                         !.first = IF script.opens = 0 THEN r.fr.s.current_page ELSE @]
     ELSE IF close /\ script.closes + 1 < script.opens
             /\ Head(r.text) \in {"Tab closed (remaining tabs: ", "Cannot close the last tab"}
     THEN [script EXCEPT !.phase = "close", !.closes = @ + 1]
     ELSE off

\* the session, the engine and the history after a handler ended with
\* result r (its frame and its text)
Settle(op, name, url, args, r) ==
  /\ r.fr.e.created <= MaxPages
  /\ playwright' = r.fr.s.playwright
  /\ browser' = r.fr.s.browser
  /\ context' = r.fr.s.context
  /\ pages' = r.fr.s.pages
  /\ current_page' = r.fr.s.current_page
  /\ engine' = r.fr.e
  /\ calls' = r.fr.calls
  /\ last' = [Record(op, name, url, args, r.text)
                EXCEPT !.raised = r.fr.raised,
                       !.caught = "caught" \in DOMAIN r /\ r.caught]
  /\ script' = ScriptNext(op, name, r)

\* the state after a handler that was called on its own ended with result r
Finish(op, name, url, args, r) ==
  /\ Settle(op, name, url, args, r)
  /\ UNCHANGED <<main, tasks>>

\* a direct call of _ensure_browser (an exception reaches the caller)
EnsureBrowserCall ==
  \E F \in FaultSets(EnsureFaults(Self, engine)) :
    \E fr \in {EnsureBrowser(Frame(Self, engine), F)} :
      /\ Finish("ensure_browser", "", NoUrl, EmptyBag,
                [text |-> IF fr.raised THEN EngineError ELSE <<"None">>, fr |-> fr])
      /\ UNCHANGED cleanups

\* a direct call of _new_tab(url)
NewTabCall ==
  \E url \in Urls \cup {NoUrl},
     F \in FaultSets(EnsureFaults(Self, engine) \cup NewPageFaults(engine)) :
    \E nav \in NavFor(url, F) :
      \E r \in {NewTab(Frame(Self, engine), url, F, nav)} :
        /\ Finish("new_tab", "", url, EmptyBag, r)
        /\ UNCHANGED cleanups

\* a direct call of _close_tab()
CloseTabCall ==
  \E F \in FaultSets(PageCloseFaults(Self)) :
    \E r \in {CloseTab(Frame(Self, engine), F)} :
      /\ Finish("close_tab", "", NoUrl, EmptyBag, r)
      /\ UNCHANGED cleanups

\* a call of cleanup()
CleanupCall ==
  /\ cleanups < MaxCleanups
  /\ \E F \in FaultSets(CleanupFaults(Self)) :
       \E r \in {Cleanup(Frame(Self, engine), F)} :
         /\ Finish("cleanup", "", NoUrl, EmptyBag, r)
         /\ cleanups' = cleanups + 1

\* one tool call delivered by the transport to handle_call_tool
CallTool ==
  \E name \in CalledTools :
    \E args \in ArgBags(name) :
      \E F \in FaultSets(ToolFaults(name, args, Self, engine)) :
        \E nav \in ToolNav(name, args, F), x \in ToolExec(name, args, F) :
          \E r \in {HandleCallTool(Frame(Self, engine), name, args, F, nav, x)} :
            /\ Finish("call_tool", name, GetUrl(args), args, r)
            /\ UNCHANGED cleanups

\* the transport asks handle_list_tools for the catalog
ListTools ==
  \E r \in {HandleListTools(Frame(Self, engine))} :
    /\ Finish("list_tools", "", NoUrl, EmptyBag, r)
    /\ UNCHANGED cleanups

\* the timeout values given to the validator: around both ends of
\* (0, 60000], and values that are not numbers
TimeoutValues ==
  {Num(0 - 1), Num(0), Num(1), Num(5000), Num(60000), Num(60001),
   Bool(TRUE), Bool(FALSE), Str(<<"30">>), Other}

\* the bags with field k holding one of the values vs, or without it
Field(k, vs) == {EmptyBag} \cup {k :> v : v \in vs}

\* the argument bags given to the validator alone
ValidateBags ==
  {t @@ sel @@ url :
     t \in Field("timeout", TimeoutValues),
     sel \in Field("selector", {Str(<<" ", "#a", " ">>), Str(<<" ">>)}),
     url \in Field("url", {Str(<<"https://", "example.com">>), Str(<<"ftp://", "example.com">>)})}

\* one call of _validate_arguments(name, arguments)
ValidateCall ==
  \E name \in CalledTools, args \in ValidateBags :
    /\ last' = Record("validate", name, NoUrl, args, << >>)
    /\ UNCHANGED <<playwright, browser, context, pages, current_page,
                   engine, calls, cleanups, script, main, tasks>>

\* the validator called on its own
SpecValidate == Init /\ [][ValidateCall]_vars

\* most fields of a form, and the selectors they are drawn from
MaxFields == 3

FieldSelectors == {"#a", "#b", "#bad"}

\* the forms: sequences of distinct selectors (the keys of a dict)
Forms ==
  {f \in UNION {[1..n -> FieldSelectors] : n \in 0..MaxFields} :
     \A i, j \in 1..Len(f) : i # j => f[i] # f[j]}

\* the record of an executor called on its own: its name, its inputs and
\* what it returned
Ran(op, in, out) ==
  /\ last' = [last EXCEPT !.op = op, !.args = in, !.text = out]
  /\ UNCHANGED <<playwright, browser, context, pages, current_page,
                 engine, calls, cleanups, script, main, tasks>>

\* one call of tools.fill_form(page, form_data, submit_selector)
FillFormCall ==
  \E form \in Forms, submit_selector \in {NoSelector, "#go"} :
    \E fails \in SUBSET Range(form),
       submit \in IF submit_selector = NoSelector THEN {"ok"} ELSE {"ok", "fail"} :
      Ran("fill_form",
          [form |-> form, fails |-> fails, submit_selector |-> submit_selector,
           submit |-> submit],
          FillForm(form, fails, submit_selector, submit))

\* most links of a page
MaxLinks == 3

\* one call of tools.get_links(page, limit) on a page with total links
GetLinksCall ==
  \E total \in 0..MaxLinks, limit \in (0 - 1)..(MaxLinks + 1), evaluate \in {"ok", "raise"} :
    Ran("get_links", [total |-> total, limit |-> limit, evaluate |-> evaluate],
        GetLinks(total, limit, evaluate))

\* most elements the fallback of get_text finds
MaxElements == 2

\* the lists of elements query_selector_all can return, by their texts
ElementLists == UNION {[1..n -> TextContents] : n \in 0..MaxElements}

\* one call of tools.get_text(page, selector)
GetTextCall ==
  \E single \in {Single("raise", NoText), Single("none", NoText)}
                 \cup {Single("element", t) : t \in TextContents} :
    \E elements \in IF single.out = "raise"
                     THEN {Elements("raise", << >>)}
                          \cup {Elements("list", l) : l \in ElementLists}
                     ELSE {Elements("list", << >>)} :
      Ran("get_text", [selector |-> "#a", elements |-> elements, single |-> single],
          GetText("#a", single, elements))

\* what the engine calls of click can do for a selector that matches an
\* element (present) or none: without an element the wait for visibility
\* times out
ClickRuns(present) ==
  IF ~present
  THEN {[wait |-> "timeout", query |-> "none", scroll |-> "ok", click |-> "ok"]}
  ELSE {[wait |-> w, query |-> q, scroll |-> sc, click |-> c] :
          w \in {"ok"} \cup ClickFailures, q \in {"element", "none"},
          sc \in {"ok", "other"}, c \in {"ok"} \cup ClickFailures}

\* one call of tools.click(page, selector, timeout)
ClickCall ==
  \E present \in BOOLEAN, timeout \in {1000, 5000} :
    \E run \in ClickRuns(present) :
      LET selector == IF present THEN "#a" ELSE "#nonexistent-element"
      IN Ran("click",
             [selector |-> selector, timeout |-> timeout, run |-> run, present |-> present],
             Click(selector, timeout, run))

\* the executors called on their own, as tests/test_tools.py calls them
NextTools ==
  \/ FillFormCall
  \/ GetLinksCall
  \/ GetTextCall
  \/ ClickCall

SpecTools == Init /\ [][NextTools]_vars

\* the ways `await server.run()` can be left: it returns, a signal handler
\* raises KeyboardInterrupt, or another exception comes out of it
Ways == {"return", "KeyboardInterrupt", "Exception"}

\* mutant of MainAfterRun: the exit after an exception does not pass
\* through the finally clause
MainAfterRun_ExitSkipsFinally(m, way) ==
  CASE way = "return" -> [m EXCEPT !.pc = "finally", !.way = way]
    [] way = "KeyboardInterrupt" ->
         [m EXCEPT !.pc = "finally", !.way = way,
                   !.log = Append(@, "Shutting down server gracefully...")]
    [] OTHER ->
         [m EXCEPT !.pc = "exiting", !.way = way, !.pending = "SystemExit",
                   !.log = Append(@, "Error running server")]

\* async_main, the except clauses after `await server.run()` was left by
\* way: sys.exit(1) raises SystemExit, which is pending while the finally
\* clause runs
MainAfterRun(m, way) ==
  CASE way = "return" -> [m EXCEPT !.pc = "finally", !.way = way]
    [] way = "KeyboardInterrupt" ->
         [m EXCEPT !.pc = "finally", !.way = way,
                   !.log = Append(@, "Shutting down server gracefully...")]
    [] OTHER ->
         [m EXCEPT !.pc = "finally", !.way = way, !.pending = "SystemExit",
                   !.log = Append(@, "Error running server")]

\* server.run() is left
RunLeaves ==
  /\ main.pc = "run"
  /\ \E way \in Ways : main' = MainAfterRun(main, way)
  /\ UNCHANGED <<playwright, browser, context, pages, current_page,
                 engine, calls, last, cleanups, script, tasks>>

\* async_main, the finally clause: cleanup() logs its own failure and
\* returns, then the completion is logged
FinallyCleanup ==
  /\ main.pc = "finally"
  /\ \E F \in FaultSets(CleanupFaults(Self)) :
       \E r \in {Cleanup(Frame(Self, engine), F)} :
         /\ Settle("cleanup", "", NoUrl, EmptyBag, r)
         /\ main' = [main EXCEPT
                       !.pc = "exiting",
                       !.log = @ \o (IF r.text # << >> THEN <<"Error during cleanup">> ELSE << >>)
                                 \o <<"Server cleanup completed">>]
  /\ cleanups' = cleanups + 1
  /\ UNCHANGED tasks

\* async_main is left and main() ends the process: the pending SystemExit
\* of sys.exit(1) gives exit code 1, a return gives 0
Exit ==
  /\ main.pc = "exiting"
  /\ main' = [main EXCEPT !.pc = "exited",
                          !.code = IF main.pending = "SystemExit" THEN 1 ELSE 0]
  /\ UNCHANGED <<playwright, browser, context, pages, current_page,
                 engine, calls, last, cleanups, script, tasks>>

\* server.run() serves the calls the transport delivers
Serve ==
  /\ main.pc = "run"
  /\ (ListTools \/ CallTool)

\* the process: async_main around the dispatch loop
NextMain ==
  \/ Serve
  \/ RunLeaves
  \/ FinallyCleanup
  \/ Exit

SpecMain == Init /\ [][NextMain]_vars

\* the awaits of one handle_call_tool invocation of an executor tool, in
\* program order: the four of _ensure_browser, then the executor's
Stages == <<"start", "launch", "new_context", "new_page", "exec">>

\* the guard in front of the await of Stages[k], read in session s
Guard(s, k) ==
  CASE k = 1 -> s.playwright = NULL
    [] k = 2 -> s.browser = NULL
    [] k = 3 -> s.context = NULL
    [] k = 4 -> s.current_page = NULL
    [] OTHER -> TRUE

\* the first await after Stages[k] whose guard holds in session s: the
\* code between two awaits runs without interruption
RECURSIVE NextAwait(_, _)
NextAwait(s, k) == IF Guard(s, k + 1) THEN k + 1 ELSE NextAwait(s, k + 1)

\* the handle the engine call of Stages[k] will return when issued with
\* engine counters e (for the executor: none)
Issued(e, k) ==
  CASE k = 1 -> e.started + 1
    [] k = 2 -> e.launched + 1
    [] k = 3 -> e.contexts + 1
    [] k = 4 -> e.created + 1
    [] OTHER -> NULL

\* the engine counters after the call of Stages[k] was issued
Count(e, k) ==
  CASE k = 1 -> [e EXCEPT !.started = @ + 1]
    [] k = 2 -> [e EXCEPT !.launched = @ + 1]
    [] k = 3 -> [e EXCEPT !.contexts = @ + 1]
    [] k = 4 -> [e EXCEPT !.created = @ + 1]
    [] OTHER -> e

\* the assignment that follows the await of Stages[k] when it returned h
Assign(s, k, h) ==
  CASE k = 1 -> [s EXCEPT !.playwright = h]
    [] k = 2 -> [s EXCEPT !.browser = h]
    [] k = 3 -> [s EXCEPT !.context = h]
    [] k = 4 -> [s EXCEPT !.current_page = h, !.pages = Append(@, h)]
    [] OTHER -> s

\* what the engine has created, after the call of Stages[k] returned h
Made(made, k, h) ==
  CASE k = 1 -> [made EXCEPT !.engines = @ \cup {h}]
    [] k = 2 -> [made EXCEPT !.browsers = @ \cup {h}]
    [] k = 3 -> [made EXCEPT !.contexts = @ \cup {h}]
    [] k = 4 -> [made EXCEPT !.pages = @ \cup {h}]
    [] OTHER -> made

\* the position of Stages[k] in a task's pc, 0 for "idle" and "done"
StageOf(pc) == IF \E k \in 1..Len(Stages) : Stages[k] = pc
               THEN CHOOSE k \in 1..Len(Stages) : Stages[k] = pc
               ELSE 0

\* invocation t runs session s from behind the await of Stages[k] to its
\* next await and issues that call
Suspend(t, s, k, made) ==
  LET n == NextAwait(s, k)
  IN /\ playwright' = s.playwright
     /\ browser' = s.browser
     /\ context' = s.context
     /\ pages' = s.pages
     /\ current_page' = s.current_page
     /\ engine' = Count(engine, n)
     /\ tasks' = [h |-> [tasks.h EXCEPT ![t] = Issued(engine, n)],
                  pc |-> [tasks.pc EXCEPT ![t] = Stages[n]],
                  made |-> made]

\* the transport delivers a call of an executor tool without arguments to
\* invocation t, which runs to its first await
Begin(t) ==
  /\ tasks.pc[t] = "idle"
  /\ Suspend(t, Self, 0, tasks.made)
  /\ UNCHANGED <<calls, last, cleanups, script, main>>

\* the pending engine call of invocation t returns and t runs to its next
\* await, or to its end after the executor
Return(t) ==
  LET k == StageOf(tasks.pc[t])
      h == tasks.h[t]
  IN /\ k > 0
     /\ calls' = Append(calls, Call(Stages[k], h, << >>, "ok"))
     /\ IF k < Len(Stages)
        THEN Suspend(t, Assign(Self, k, h), k, Made(tasks.made, k, h))
        ELSE /\ tasks' = [tasks EXCEPT !.pc[t] = "done"]
             /\ UNCHANGED <<playwright, browser, context, pages, current_page, engine>>
     /\ UNCHANGED <<last, cleanups, script, main>>

\* the pending engine call of invocation t raises: the exception ends the
\* invocation in the except clause of handle_call_tool or of the executor
Raise(t) ==
  /\ StageOf(tasks.pc[t]) > 0
  /\ calls' = Append(calls, Call(tasks.pc[t], tasks.h[t], << >>, "raised"))
  /\ tasks' = [tasks EXCEPT !.pc[t] = "done"]
  /\ UNCHANGED <<playwright, browser, context, pages, current_page, engine,
                 last, cleanups, script, main>>

\* two handle_call_tool invocations on the fresh session, interleaved at
\* their awaits
NextOverlap ==
  \E t \in Tasks :
    \/ Begin(t)
    \/ Return(t)
    \/ Raise(t)

SpecOverlap == Init /\ [][NextOverlap]_vars

\* one tool call without arguments, of any listed name or an unknown
\* one, every engine call of the session manager succeeding
CatalogCall ==
  \E name \in Range(Catalog) \cup UnknownTools :
    \E x \in ToolExec(name, EmptyBag, {}) :
      \E r \in {HandleCallTool(Frame(Self, engine), name, EmptyBag, {}, "ok", x)} :
        /\ Finish("call_tool", name, NoUrl, EmptyBag, r)
        /\ UNCHANGED cleanups

\* the catalog is read and every name is dispatched
NextCatalog ==
  \/ ListTools
  \/ CatalogCall

SpecCatalog == Init /\ [][NextCatalog]_vars

Next ==
  \/ ListTools
  \/ EnsureBrowserCall
  \/ NewTabCall
  \/ CloseTabCall
  \/ CleanupCall
  \/ CallTool

Spec == Init /\ [][Next]_vars

\* the type of the session fields
TypeOK ==
  /\ playwright \in 0..1 /\ browser \in 0..1 /\ context \in 0..1
  /\ pages \in Seq(1..MaxPages)
  /\ current_page \in 0..MaxPages
  /\ cleanups \in 0..MaxCleanups

(* ---------------- helpers of the properties ---------------- *)

\* the last operation was op, called directly or through handle_call_tool
\* with arguments that passed validation
LastWas(op, tool) ==
  \/ last.op = op
  \/ /\ last.op = "call_tool"
     /\ last.name = tool
     /\ ValidateArguments(last.name, last.args).ok

\* the session record s has every handle and a current page
Initialised(s) ==
  /\ s.playwright # NULL
  /\ s.browser # NULL
  /\ s.context # NULL
  /\ s.pages # << >>
  /\ s.current_page # NULL

\* the kinds of the calls of a log, in order
Kinds(log) == [i \in 1..Len(log) |-> log[i].kind]

\* the calls of a log made on handle h with the given kind
CallsOn(log, kind, h) == {i \in 1..Len(log) : log[i].kind = kind /\ log[i].on = h}

(* ---------------- C1 ---------------- *)

\* C1 as stated: a dispatch of a name outside the known set returns a text
\* containing "Unknown tool" and leaves every session field as it was,
\* the first call on a fresh session included.  (The text is asked for only
\* of calls whose arguments pass validation and whose engine calls succeed.)
C1_UnknownToolNeverTouchesSession ==
  (last.op = "call_tool" /\ last.name \notin KnownTools)
    => /\ (ValidateArguments(last.name, last.args).ok /\ AllOk(calls))
            => Includes(last.text, "Unknown tool")
       /\ Self = last.pre

\* C1 amended: a dispatch of an unknown name whose arguments pass
\* validation and whose session initialisation succeeds returns
\* "Unknown tool: <name>"; on an initialised session it changes no session
\* field and makes no engine call; on any session the only engine calls it
\* makes are those of _ensure_browser, which on a fresh session start the
\* engine, launch the browser and create the context and one page before
\* the name is resolved; with arguments that fail validation it changes
\* nothing and returns the error text.
C1_UnknownToolAfterEnsure ==
  (last.op = "call_tool" /\ last.name \notin KnownTools)
    => LET valid == ValidateArguments(last.name, last.args).ok
       IN /\ (valid /\ AllOk(calls)) => last.text = <<"Unknown tool", ": ", last.name>>
          /\ Initialised(last.pre) => (Self = last.pre /\ calls = << >>)
          /\ ~valid => /\ Self = last.pre
                        /\ calls = << >>
                        /\ Head(last.text) = "Error executing "
          /\ \A i \in 1..Len(calls) :
               calls[i].kind \in {"start", "launch", "new_context", "new_page"}
          /\ (valid /\ AllOk(calls) /\ last.pre = FreshSelf)
               => /\ Kinds(calls) = <<"start", "launch", "new_context", "new_page">>
                  /\ Initialised(Self)
                  /\ Len(pages) = 1

\* an unknown name was dispatched as the first call on a fresh session and
\* got the "Unknown tool" text
C1_Witness ==
  /\ last.op = "call_tool"
  /\ last.name \notin KnownTools
  /\ last.pre = FreshSelf
  /\ Includes(last.text, "Unknown tool")
  /\ Initialised(Self)

(* ---------------- C2 ---------------- *)

\* C2 as stated: when a cleanup of an initialised session has completed
\* with every close succeeding, the cleanup called next issues no close or
\* stop call.
C2_SecondCleanupIssuesNothing ==
  [][ ( /\ last.op = "cleanup"
        /\ Initialised(last.pre)
        /\ AllOk(calls)
        /\ last'.op = "cleanup"
        /\ cleanups' = cleanups + 1 )
      => calls' = << >> ]_vars

(* ---------------- C3 ---------------- *)

\* C3 as stated: whichever close step of a cleanup fails, every resource of
\* the session still receives its close (or stop) call.
C3_FailureDoesNotBlockLaterCloses ==
  last.op = "cleanup"
    => /\ \A p \in Range(last.pre.pages) : CallsOn(calls, "page.close", p) # {}
       /\ last.pre.context # NULL => CallsOn(calls, "context.close", last.pre.context) # {}
       /\ last.pre.browser # NULL => CallsOn(calls, "browser.close", last.pre.browser) # {}
       /\ last.pre.playwright # NULL => CallsOn(calls, "stop", last.pre.playwright) # {}

(* ---------------- C4 ---------------- *)

C5_EnsureLaunchesOnce ==
  /\ engine.started <= 1
  /\ engine.launched <= 1
  /\ engine.contexts <= 1
  /\ (last.op = "ensure_browser" /\ Initialised(last.pre))
       => (Self = last.pre /\ calls = << >> /\ engine = last.before)
  /\ (last.op = "ensure_browser" /\ last.pre = FreshSelf /\ AllOk(calls))
       => Kinds(calls) = <<"start", "launch", "new_context", "new_page">>

\* _ensure_browser was called a second time, on the session a first call
\* had initialised
C5_Witness ==
  /\ last.op = "ensure_browser"
  /\ Initialised(last.pre)
  /\ Len(last.pre.pages) = 1
  /\ engine.launched = 1
  /\ calls = << >>

(* ---------------- C6 ---------------- *)

\* C6: after _ensure_browser returns without error on a fresh session, the
\* engine, browser and context handles are non-null, the page sequence
\* holds exactly one page, and the current page is non-null and is that
\* page.
C6_EnsureInitialises ==
  (last.op = "ensure_browser" /\ last.pre = FreshSelf /\ last.text = <<"None">>)
    => /\ playwright # NULL
       /\ browser # NULL
       /\ context # NULL
       /\ Len(pages) = 1
       /\ current_page # NULL
       /\ current_page = pages[1]

\* _ensure_browser returned without error on a fresh session
C6_Witness ==
  /\ last.op = "ensure_browser"
  /\ last.pre = FreshSelf
  /\ last.text = <<"None">>
  /\ Len(calls) = 4

(* ---------------- C7 ---------------- *)

\* C7: _close_tab called when exactly one page is open returns "Cannot
\* close the last tab", makes no page.close call and leaves the page
\* sequence and the current page (every session field) as they were, so
\* that a repeated call meets the same state and gives the same refusal.
C7_CloseLastTabRefused ==
  (LastWas("close_tab", "browser_close_tab") /\ Len(last.pre.pages) = 1)
    => /\ last.text = <<"Cannot close the last tab">>
       /\ OfKind(calls, "page.close") = << >>
       /\ Self = last.pre

\* _close_tab was called on a session with one page, was refused and left
\* that page open
C7_Witness ==
  /\ last.op = "close_tab"
  /\ Len(last.pre.pages) = 1
  /\ last.text = <<"Cannot close the last tab">>
  /\ pages = last.pre.pages

(* ---------------- C8 ---------------- *)

\* C8: _close_tab called with two or more pages open removes exactly the
\* current page from the page sequence (one page fewer, the others in
\* their order), makes exactly one page.close call, on that page, and makes
\* the last page of the remaining sequence the current page.
C8_CloseTabRemovesCurrent ==
  (LastWas("close_tab", "browser_close_tab") /\ Len(last.pre.pages) >= 2)
    => LET old == last.pre.pages
           n == Len(old)
       IN /\ Len(pages) = n - 1
          /\ \E i \in 1..n :
               /\ old[i] = last.pre.current_page
               /\ pages = SubSeq(old, 1, i - 1) \o SubSeq(old, i + 1, n)
          /\ Len(OfKind(calls, "page.close")) = 1
          /\ OfKind(calls, "page.close")[1].on = last.pre.current_page
          /\ current_page = pages[Len(pages)]

\* _close_tab closed the current one of three pages
C8_Witness ==
  /\ last.op = "close_tab"
  /\ Len(last.pre.pages) = 3
  /\ Len(pages) = 2
  /\ Head(last.text) = "Tab closed (remaining tabs: "

(* ---------------- C9 ---------------- *)

\* a run that is N >= 1 successful openTab calls on the fresh session
\* followed by N-1 closeTab calls, every engine call succeeding
OpenedNClosedNMinus1 ==
  /\ script.phase # "off"
  /\ script.opens >= 1
  /\ script.closes = script.opens - 1

\* C9 as stated: after opening N tabs on a fresh session and closing N-1,
\* exactly one page is left and the current page is the first-opened page.
C9_OnePageLeft ==
  OpenedNClosedNMinus1
    => /\ Len(pages) = 1
       /\ current_page # NULL
       /\ current_page = script.first

\* C9 amended: after opening N tabs on a fresh session and closing N-1,
\* exactly two pages are left, the initial page that _ensure_browser
\* created followed by the first page openTab opened, and the current page
\* is non-null and is the first page openTab opened.
C9_TwoPagesLeft ==
  OpenedNClosedNMinus1
    => /\ Len(pages) = 2
       /\ current_page # NULL
       /\ current_page = script.first
       /\ pages[2] = script.first
       /\ pages[1] # script.first

\* two tabs were opened on the fresh session and one was closed
C9_Witness ==
  /\ script.phase = "close"
  /\ script.opens = 2
  /\ script.closes = 1

(* ---------------- C10 ---------------- *)

\* openTab(url) ran on the fresh session with a url and every engine call,
\* the navigation included, succeeded
OpenedTabOnFresh ==
  /\ LastWas("new_tab", "browser_new_tab")
  /\ last.pre = FreshSelf
  /\ last.url # NoUrl
  /\ AllOk(calls)

\* the page goto was called on, with its url
Navigated(p, url) ==
  \E i \in 1..Len(calls) :
    calls[i].kind = "goto" /\ calls[i].on = p /\ calls[i].arg = url

\* C10 as stated: openTab(url) on a fresh session with navigation
\* succeeding leaves exactly one page in the page sequence, which is the
\* current page and the page navigated to url, and returns "New tab opened
\* and navigated to: <url>".
C10_OpenTabOnFreshOnePage ==
  OpenedTabOnFresh
    => /\ Initialised(Self)
       /\ Len(pages) = 1
       /\ current_page = pages[1]
       /\ Navigated(current_page, last.url)
       /\ last.text = <<"New tab opened and navigated to: ">> \o last.url

\* C10 amended: openTab(url) on a fresh session with navigation succeeding
\* initialises the session and leaves exactly two pages in the page
\* sequence, the initial page of _ensure_browser followed by the new tab;
\* the new tab is the current page and the only page navigated, to url, and
\* the result is "New tab opened and navigated to: <url>".
C10_OpenTabOnFreshTwoPages ==
  OpenedTabOnFresh
    => /\ Initialised(Self)
       /\ Len(pages) = 2
       /\ pages[1] # pages[2]
       /\ current_page = pages[2]
       /\ Navigated(current_page, last.url)
       /\ Len(OfKind(calls, "goto")) = 1
       /\ last.text = <<"New tab opened and navigated to: ">> \o last.url

\* _new_tab(url) ran on the fresh session and navigated
C10_Witness ==
  /\ last.op = "new_tab"
  /\ OpenedTabOnFresh
  /\ Head(last.text) = "New tab opened and navigated to: "

(* ---------------- C11 ---------------- *)

\* the call log holds a successful call of the given kind
Succeeded(log, kind) == \E i \in 1..Len(log) : log[i].kind = kind /\ log[i].out = "ok"

\* C11: every openTab on an initialised session whose page creation
\* succeeds appends exactly one new page at the end of the page sequence
\* (the pages before stay, in their order), makes it the current page and
\* creates no browser and no context; when the page creation fails the
\* result is "Failed to open new tab: ..." and the page sequence and the
\* current page are as before.
C11_OpenTabAppendsOnePage ==
  (LastWas("new_tab", "browser_new_tab") /\ Initialised(last.pre))
    => IF Succeeded(calls, "new_page")
       THEN /\ Len(pages) = Len(last.pre.pages) + 1
            /\ SubSeq(pages, 1, Len(last.pre.pages)) = last.pre.pages
            /\ pages[Len(pages)] \notin Range(last.pre.pages)
            /\ current_page = pages[Len(pages)]
            /\ Len(OfKind(calls, "new_page")) = 1
            /\ OfKind(calls, "start") = << >>
            /\ OfKind(calls, "launch") = << >>
            /\ OfKind(calls, "new_context") = << >>
            /\ playwright = last.pre.playwright
            /\ browser = last.pre.browser
            /\ context = last.pre.context
       ELSE /\ Head(last.text) = "Failed to open new tab: "
            /\ pages = last.pre.pages
            /\ current_page = last.pre.current_page

\* openTab ran on an initialised session that already had two pages and
\* its page creation succeeded
C11_Witness ==
  /\ LastWas("new_tab", "browser_new_tab")
  /\ Initialised(last.pre)
  /\ Len(last.pre.pages) = 2
  /\ Succeeded(calls, "new_page")
  /\ Len(pages) = 3

(* ---------------- C12 ---------------- *)

\* C12: in openTab(url) a navigation that is not a success (no response,
\* status >= 400, timeout, network error, other engine error) leaves the new
\* tab in the page sequence as the current page and the result is the
\* "New tab opened but navigation failed" message; the "navigated to"
\* message is returned only when the navigation got a response with a
\* status below 400.
C12_NavigationFailureReportedDistinctly ==
  (LastWas("new_tab", "browser_new_tab") /\ OfKind(calls, "goto") # << >>)
    => LET g == OfKind(calls, "goto")[1]
       IN /\ pages # << >>
          /\ pages[Len(pages)] = g.on
          /\ current_page = g.on
          /\ g.out # "ok" => Head(last.text) = "New tab opened but navigation failed: "
          /\ Head(last.text) = "New tab opened and navigated to: " => g.out = "ok"

(* ---------------- C13 ---------------- *)

\* C13: a dispatch whose argument bag breaks a validator rule returns a
\* text that carries the rule's message, makes no engine call of any kind
\* (no start, launch, context or page creation, no executor, no navigation)
\* and leaves the session as it was, whatever the tool name and the session
C13_ValidationFailureShortCircuits ==
  (last.op = "call_tool" /\ ~last.validated.ok)
    => /\ calls = << >>
       /\ engine = last.before
       /\ Self = last.pre
       /\ last.text = ErrorText(last.name, last.validated.error)
       /\ last.validated.error # << >>

\* browser_navigate with a url outside the three schemes arrived on the
\* fresh session
C13_Witness ==
  /\ last.op = "call_tool"
  /\ last.name = "browser_navigate"
  /\ last.args = BadUrlBag
  /\ last.pre = FreshSelf
  /\ Includes(last.text, "URL must start with http://, https://, or file://")

(* ---------------- C14 ---------------- *)

\* the bag without its timeout field
WithoutTimeout(args) == [k \in DOMAIN args \ {"timeout"} |-> args[k]]

\* C14: for a bag with a timeout field the validator leaves 5000 when the
\* value is <= 0 or not a number, 60000 when it is above 60000, the value
\* itself when it lies in (0, 60000]; whether the call fails does not depend
\* on the timeout, and a bag without the field gets none.  (A number is what
\* isinstance(v, (int, float)) accepts: True counts as 1, False as 0.)
C14_TimeoutNormalised ==
  last.op = "validate"
    => LET a == last.args
           v == last.validated
       IN /\ v.ok = (ValidationError(WithoutTimeout(a)) = << >>)
          /\ Has(v.args, "timeout") = Has(a, "timeout")
          /\ Has(a, "timeout")
               => LET t == a["timeout"]
                      out == v.args["timeout"]
                  IN /\ (~IsNumber(t) \/ t.num <= 0) => out = Num(5000)
                     /\ (IsNumber(t) /\ t.num > 60000) => out = Num(60000)
                     /\ (IsNumber(t) /\ 0 < t.num /\ t.num <= 60000) => out = t

\* the validator capped a timeout of 60001 in a bag that passed
C14_Witness ==
  /\ last.op = "validate"
  /\ Has(last.args, "timeout")
  /\ last.args["timeout"] = Num(60001)
  /\ last.validated.ok
  /\ last.validated.args["timeout"] = Num(60000)

(* ---------------- C15 ---------------- *)

\* an engine call of one of the given kinds raised in the log
Raised(log, kinds) == \E i \in 1..Len(log) : log[i].kind \in kinds /\ log[i].out = "raised"

\* C15: handle_call_tool raises nothing to its caller and returns one text
\* item, whatever the tool name, the argument bag and the failure; a failure
\* of the validation, of a session initialisation step, or one that leaves
\* an executor is caught and the text is "Error executing <name>: ..."
C15_NothingEscapesDispatch ==
  last.op = "call_tool"
    => /\ ~last.raised
       /\ last.text # << >>
       /\ ~last.validated.ok => last.caught
       /\ Raised(calls, {"start", "launch", "new_context"}) => last.caught
       /\ last.caught => /\ Len(last.text) >= 3
                         /\ SubSeq(last.text, 1, 3) = <<"Error executing ", last.name, ": ">>

\* an exception left the executor of browser_click and was caught
C15_Witness ==
  /\ last.op = "call_tool"
  /\ last.name = "browser_click"
  /\ last.validated.ok
  /\ Raised(calls, {"browser_click"})
  /\ last.caught
  /\ last.text = ErrorText("browser_click", EngineError)

(* ---------------- C16 ---------------- *)

\* the last operation ran _ensure_browser as its first engine work: a
\* direct call, or a dispatch whose arguments passed validation
RanEnsure ==
  \/ last.op = "ensure_browser"
  \/ last.op = "call_tool" /\ last.validated.ok

\* the initialisation step session s is missing first, "none" when it has
\* every handle and a current page
FirstMissing(s) ==
  IF s.playwright = NULL THEN "start"
  ELSE IF s.browser = NULL THEN "launch"
  ELSE IF s.context = NULL THEN "new_context"
  ELSE IF s.current_page = NULL THEN "new_page"
  ELSE "none"

\* the step of _ensure_browser that raised in the log of an operation that
\* began in session pre, "none" when no step did
FailedStep(log, pre) ==
  IF Raised(log, {"start"}) THEN "start"
  ELSE IF Raised(log, {"launch"}) THEN "launch"
  ELSE IF Raised(log, {"new_context"}) THEN "new_context"
  ELSE IF pre.current_page = NULL /\ OfKind(log, "new_page") # << >>
          /\ OfKind(log, "new_page")[1].out = "raised"
  THEN "new_page"
  ELSE "none"

\* C16: when a step of the session initialisation fails during a dispatch
\* the result is the "Error executing <name>" text, the handles obtained
\* before the failing step are kept, the failing one and the later ones
\* stay null/empty; the next run of the initialisation starts at the first
\* missing step and repeats no step that succeeded (the engine is started
\* at most once); when no step fails the session is fully initialised.
C16_PartialInitialisationResumes ==
  /\ engine.started <= 1
  /\ RanEnsure =>
       LET step == FailedStep(calls, last.pre)
       IN /\ step # "none" =>
               /\ last.op = "call_tool" => last.text = ErrorText(last.name, EngineError)
               /\ FirstMissing(Self) = step
               /\ (playwright # NULL) = (step # "start")
               /\ (browser # NULL) = (step \notin {"start", "launch"})
               /\ (context # NULL) = (step = "new_page")
               /\ pages = last.pre.pages
               /\ current_page = NULL
          /\ step = "none" => Initialised(Self)
          /\ FirstMissing(last.pre) # "none"
               => /\ calls # << >>
                  /\ calls[1].kind = FirstMissing(last.pre)
          /\ OfKind(calls, "start") # << >> => last.pre.playwright = NULL
          /\ OfKind(calls, "launch") # << >> => last.pre.browser = NULL
          /\ OfKind(calls, "new_context") # << >> => last.pre.context = NULL
          /\ Len(OfKind(calls, "start")) <= 1
          /\ Len(OfKind(calls, "launch")) <= 1
          /\ Len(OfKind(calls, "new_context")) <= 1

\* a dispatch found the engine started and the browser missing, as a failed
\* launch leaves them, and completed the initialisation from the launch on
C16_Witness ==
  /\ last.op = "call_tool"
  /\ last.validated.ok
  /\ last.pre.playwright # NULL
  /\ last.pre.browser = NULL
  /\ Len(calls) >= 3
  /\ SubSeq(Kinds(calls), 1, 3) = <<"launch", "new_context", "new_page">>
  /\ Initialised(Self)

(* ---------------- C17 ---------------- *)

\* C17: in every reachable state, failing engine calls and teardown
\* included, the context handle is set only if the browser handle is, and
\* the browser handle only if the engine handle is
C17_HandleOrder ==
  /\ context # NULL => browser # NULL
  /\ browser # NULL => playwright # NULL

\* after a cleanup of a partially initialised session a dispatch launched
\* the browser and failed to create the context
C17_Witness ==
  /\ cleanups >= 1
  /\ last.op = "call_tool"
  /\ FailedStep(calls, last.pre) = "new_context"
  /\ Succeeded(calls, "launch")
  /\ browser # NULL
  /\ context = NULL

(* ---------------- C18 ---------------- *)

\* C18: in every reachable state, failing page creations and failing page
\* closes included, the current page is null or an element of the page
\* sequence, and no page is in the page sequence twice
C18_CurrentPageIsMember ==
  /\ current_page = NULL \/ current_page \in Range(pages)
  /\ Cardinality(Range(pages)) = Len(pages)

\* closeTab removed the current page of three and its close failed
C18_Witness ==
  /\ LastWas("close_tab", "browser_close_tab")
  /\ Len(last.pre.pages) = 3
  /\ Raised(calls, {"page.close"})
  /\ Len(pages) = 2
  /\ current_page = pages[2]

(* ---------------- C19 ---------------- *)

\* the session has a page to operate against
HasPage == pages # << >> /\ current_page # NULL

\* C19: a dispatch that got past the session initialisation leaves a
\* non-empty page sequence and a current page; no later operation, any
\* number of closeTab calls included, empties the page sequence or nulls
\* the current page; and no dispatch returns "No active page available"
C19_AlwaysAPage ==
  /\ []((last.op = "call_tool" /\ last.validated.ok
           /\ FailedStep(calls, last.pre) = "none") => HasPage)
  /\ [][HasPage => HasPage']_vars
  /\ [](last.text # <<"No active page available">>)

\* a browser_close_tab dispatch closed one of two tabs and the next
\* closeTab was refused
C19_Witness ==
  /\ LastWas("close_tab", "browser_close_tab")
  /\ HasPage
  /\ Len(pages) = 1
  /\ last.pre.pages = pages
  /\ engine.created >= 2
  /\ last.text = <<"Cannot close the last tab">>

(* ---------------- C20 ---------------- *)

\* C20: the constructed server has no engine, browser or context, no page
\* and no current page; handle_list_tools makes no engine call and leaves
\* the session as it is; the engine start and the browser launch are made
\* only in an operation that runs the session initialisation (a dispatch
\* whose arguments passed validation, or a direct call of the session
\* manager), and the first such dispatch makes them
C20_LazyInitialisation ==
  /\ last.op = "init" => Self = FreshSelf /\ engine = FreshEngine /\ calls = << >>
  /\ last.op = "list_tools" =>
       /\ calls = << >>
       /\ Self = last.pre
       /\ engine = last.before
       /\ last.text = Catalog
  /\ (OfKind(calls, "start") # << >> \/ OfKind(calls, "launch") # << >>)
       => RanEnsure \/ last.op = "new_tab"
  /\ (last.op = "call_tool" /\ last.validated.ok /\ last.pre = FreshSelf)
       => /\ Len(calls) >= 2 => SubSeq(Kinds(calls), 1, 2) = <<"start", "launch">>
          /\ calls # << >> /\ calls[1].kind = "start"

\* the catalog was asked for on the fresh session, which is still fresh
C20_Witness ==
  /\ last.op = "list_tools"
  /\ last.pre = FreshSelf
  /\ Self = FreshSelf
  /\ engine = FreshEngine

(* ---------------- C21 ---------------- *)

\* the elements of seq that are not in set, in order
Outside(seq, set) == SelectSeq(seq, LAMBDA x : x \notin set)

\* the number of lines that begin with the two given tokens
Lines(lines, mark, selector) ==
  Cardinality({i \in 1..Len(lines) :
                 Len(lines[i]) >= 2 /\ lines[i][1] = mark /\ lines[i][2] = selector})

\* C21: fill_form's summary reads "Filled k/n fields" with n the number of
\* fields and k the number of fields whose fill succeeded, whatever fields
\* fail and with or without a submit selector, followed by one success line
\* for each filled field and one failure line for each failed field
C21_FillFormTally ==
  last.op = "fill_form"
    => LET form == last.args.form
           filled == Outside(form, last.args.fails)
       IN /\ SubSeq(last.text.summary, 1, 5)
               = <<"Filled ", ToString(Len(filled)), "/", ToString(Len(form)), " fields">>
          /\ \A sel \in Range(form) :
               IF sel \in last.args.fails
               THEN Lines(last.text.lines, "[x] ", sel) = 1 /\ Lines(last.text.lines, "[v] ", sel) = 0
               ELSE Lines(last.text.lines, "[v] ", sel) = 1 /\ Lines(last.text.lines, "[x] ", sel) = 0

(* ---------------- C22 ---------------- *)

\* the lines of a get_links result that list a link
Listed(lines) == {i \in 1..Len(lines) : Len(lines[i]) >= 2 /\ lines[i][2] = ". "}

\* the result of get_links carries the truncation notice
Truncated(lines) == \E i \in 1..Len(lines) : Head(lines[i]) = "(Limited to first "

\* C22: for a page with t links and a limit L, get_links lists at most L
\* links, reports t as the number of links found, and gives the truncation
\* notice exactly when t > L
C22_GetLinksCountAndNotice ==
  (last.op = "get_links" /\ last.args.evaluate = "ok"
     /\ last.args.total >= 1 /\ last.args.limit >= 1)
    => /\ Cardinality(Listed(last.text)) <= last.args.limit
       /\ last.text[1] = <<"Found ", ToString(last.args.total), " links:">>
       /\ Truncated(last.text) <=> last.args.total > last.args.limit

(* ---------------- C23 ---------------- *)

\* the trimmed texts of the elements that are not empty
NonEmptyTrimmed(texts) ==
  SelectSeq([i \in 1..Len(texts) |-> IF texts[i] = NoText THEN << >> ELSE Strip(texts[i])],
            LAMBDA t : t # << >>)

\* C23: when the single-element lookup of get_text fails, the result is ""
\* if the fallback query finds no element, and the non-empty trimmed texts
\* of the elements joined with " | " if it finds some
C23_GetTextFallback ==
  (last.op = "get_text" /\ last.args.single.out = "raise"
     /\ last.args.elements.out = "list")
    => last.text = Join(NonEmptyTrimmed(last.args.elements.texts))

(* ---------------- C24 ---------------- *)

C25_TeardownBeforeExit ==
  /\ main.pc \in {"run", "finally"} => cleanups = 0
  /\ main.pc \in {"exiting", "exited"} =>
       /\ cleanups = 1
       /\ last.op = "cleanup"
       /\ ~AllOk(calls) => Includes(main.log, "Error during cleanup")
       /\ Includes(main.log, "Server cleanup completed")
  /\ main.pc = "exited" => main.code = (IF main.way = "Exception" THEN 1 ELSE 0)

\* the process exited with code 1 after an exception left server.run, and
\* a close inside cleanup had failed
C25_Witness ==
  /\ main.pc = "exited"
  /\ main.way = "Exception"
  /\ main.code = 1
  /\ cleanups = 1
  /\ Initialised(last.pre)
  /\ ~AllOk(calls)

(* ---------------- C26 ---------------- *)

\* C26: in every interleaving of two handle_call_tool invocations on a
\* fresh session the engine is started at most once, the browser is
\* launched at most once, at most one context is created, and when both
\* invocations have ended the session refers to every engine, browser,
\* context and page that was created
C26_OverlapLaunchesOnce ==
  /\ Cardinality(tasks.made.engines) <= 1
  /\ Cardinality(tasks.made.browsers) <= 1
  /\ Cardinality(tasks.made.contexts) <= 1
  /\ (\A t \in Tasks : tasks.pc[t] = "done")
       => /\ tasks.made.engines \subseteq {playwright}
          /\ tasks.made.browsers \subseteq {browser}
          /\ tasks.made.contexts \subseteq {context}
          /\ tasks.made.pages \subseteq Range(pages)

(* ---------------- C27 ---------------- *)

\* C27: when _close_tab returns "Failed to close tab" because the close of
\* the page raised, the page sequence and the current page are as they were
\* before the call
C27_FailedCloseLeavesSession ==
  (LastWas("close_tab", "browser_close_tab")
     /\ Raised(calls, {"page.close"})
     /\ Head(last.text) = "Failed to close tab: ")
    => /\ pages = last.pre.pages
       /\ current_page = last.pre.current_page

(* ---------------- C28 ---------------- *)

\* the engine calls the routing of a dispatch made, those of the session
\* initialisation left out
Routed(log) ==
  SelectSeq(log, LAMBDA c : c.kind \notin {"start", "launch", "new_context", "new_page"})

\* C28: the names listTools returns are exactly the names handle_call_tool
\* has a branch for, each once; a dispatch of a listed name that reaches the
\* routing runs its executor, navigation or tab operation and never returns
\* "Unknown tool"; a dispatch of an unlisted name returns "Unknown tool" and
\* runs nothing
C28_CatalogMatchesDispatch ==
  /\ last.op = "list_tools" =>
       /\ Range(last.text) = KnownTools
       /\ Cardinality(Range(last.text)) = Len(last.text)
  /\ (last.op = "call_tool" /\ last.validated.ok /\ FailedStep(calls, last.pre) = "none") =>
       IF last.name \in Range(Catalog)
       THEN /\ ~Includes(last.text, "Unknown tool")
            /\ CASE last.name = "browser_navigate" -> OfKind(calls, "goto") # << >>
                 [] last.name = "browser_new_tab" -> Head(last.text) = "New tab opened (total tabs: "
                 [] last.name = "browser_close_tab" ->
                      Head(last.text) \in {"Cannot close the last tab", "Tab closed (remaining tabs: "}
                 [] OTHER -> /\ Len(Routed(calls)) = 1
                             /\ Routed(calls)[1].kind = last.name
                             /\ Routed(calls)[1].on = current_page
       ELSE /\ last.text = <<"Unknown tool", ": ", last.name>>
            /\ Routed(calls) = << >>

\* the last name of the catalog was dispatched and its executor ran
C28_Witness ==
  /\ last.op = "call_tool"
  /\ last.name = Catalog[Len(Catalog)]
  /\ Succeeded(calls, "browser_get_links")
  /\ Head(last.text) = "Successfully"

(* ---------------- C29 ---------------- *)

\* C29: on an initialised session a dispatch of a tool other than
\* browser_new_tab and browser_close_tab leaves the three handles, the page
\* sequence and the current page as they were and makes engine calls on the
\* current page only (no start, launch, context or page creation), whether
\* the executor succeeds, returns a failure text or raises
C29_ExecutorLeavesSession ==
  (last.op = "call_tool" /\ Initialised(last.pre)
     /\ last.name \notin {"browser_new_tab", "browser_close_tab"})
    => /\ Self = last.pre
       /\ engine = last.before
       /\ \A i \in 1..Len(calls) :
            /\ calls[i].kind \in ExecutorTools \cup {"goto"}
            /\ calls[i].on = last.pre.current_page

\* an exception left the executor of browser_click on an initialised
\* session with two pages
C29_Witness ==
  /\ last.op = "call_tool"
  /\ last.name = "browser_click"
  /\ Initialised(last.pre)
  /\ Len(last.pre.pages) = 2
  /\ last.caught
  /\ Raised(calls, {"browser_click"})

====
